---- MODULE Spec2Model ----
(***************************************************************************)
(* Model of the Monday.com -> Google Drive / Sheets migration script.      *)
(*                                                                         *)
(*   Spec          main.py: the orchestrator loop (load_state, the item    *)
(*                 stream, the worker pool, append_to_sheet, save_state),  *)
(*                 with process crashes and restarts of main.              *)
(*   SpecBatch     main.py over a board of 2N+3 items with files, no       *)
(*                 failing call, counting the ledger requests.             *)
(*   SpecSync      google_service.py: get_existing_ids and sync_batch on   *)
(*                 one sheet and one index.                                *)
(*   SpecCompress  compress_image on one downloaded file.                  *)
(***************************************************************************)
EXTENDS Integers, Sequences, FiniteSets, TLC

(* ------------------------------ bounds --------------------------------- *)

\* Largest board (number of items) the upstream holds.
MaxItems == 3
\* Items per page; stands for "limit: 25" of the GraphQL query.
PageLimit == 2
\* Number of times the process is killed and main started again.
MaxCrashes == 1
\* Number of calls to Drive, Sheets or the state file, and of page fetches,
\* that fail for good in one behaviour (a retried transport failure and a
\* cursor expiry are not counted).
MaxFaults == 2

(* ------------------------- the board (upstream) ------------------------ *)

\* An item of the board is one of three shapes:
\*   "noname"   item.get('name') is empty
\*   "noassets" named, item.get('assets') is empty
\*   "files"    named, with two assets
ItemKinds == {"noname", "noassets", "files"}

Boards == [1..MaxItems -> ItemKinds]

item_name(kind) == kind # "noname"

item_assets(kind) == IF kind = "files" THEN {1, 2} ELSE {}

\* The id of an item is its position on the board (ids are unique).
Min(a, b) == IF a < b THEN a ELSE b

\* Page p (1-based) of a board of n items and the cursor the upstream returns
\* with it: 0 stands for an absent cursor (None), p+1 for the cursor of the
\* next page.
PageItems(n, p) ==
    [k \in 1..(Min(p * PageLimit, n) - Min((p - 1) * PageLimit, n))
        |-> (p - 1) * PageLimit + k]

PageCursor(n, p) == IF p * PageLimit < n THEN p + 1 ELSE 0

(* --------------------------- the state file ---------------------------- *)

\* The content of migration_state.txt: no file, an empty file, or the
\* decimal digits of a number.
Absent == [tag |-> "absent", n |-> 0]
Empty == [tag |-> "empty", n |-> 0]
Digits(n) == [tag |-> "digits", n |-> n]

\* load_state: the number in the file when its content isdigit(), else 1.
load_state(file) == IF file.tag = "digits" THEN file.n ELSE 1

\* save_state(item_num): open(STATE_FILE, 'w') truncates the file, write puts
\* str(item_num) into it; any exception is logged and swallowed.  outcome:
\*   "ok"    the file holds str(item_num)
\*   "open"  open() raised: the file is as before
\*   "write" open() truncated the file and write/flush raised: it is empty
SaveOutcomes == {"ok", "open", "write"}

save_state(file, item_num, outcome) ==
    CASE outcome = "ok" -> Digits(item_num)
      [] outcome = "open" -> file
      [] outcome = "write" -> Empty

(* ------------------------------ the sheet ------------------------------ *)

\* A row of the sheet: [name, id, date, links]; the name is the item's (it is
\* read from the board by id) and the date is not modelled.  links is the set
\* of assets whose Drive link the row lists.
Row(id, links) == [id |-> id, links |-> links]

\* get_existing_ids: the ids of column B, or the empty set when the read raises.
get_existing_ids(rows, ok) ==
    IF ok THEN {rows[k].id : k \in 1..Len(rows)} ELSE {}

\* An append_to_sheet that put the id into the cache before the request.
append_to_sheet_cachesFirst(rows, ids, item_id, links, ok) ==
    IF item_id \in ids
    THEN [sheet |-> rows, ids |-> ids]
    ELSE [sheet |-> IF ok THEN Append(rows, Row(item_id, links)) ELSE rows,
          ids |-> ids \cup {item_id}]

\* append_to_sheet: nothing when the id is in the cache; otherwise one append
\* request, and the id joins the cache after the request returned.  An
\* exception of the request is logged and swallowed.
append_to_sheet(rows, ids, item_id, links, ok) ==
    IF item_id \in ids
    THEN [sheet |-> rows, ids |-> ids]
    ELSE IF ok
         THEN [sheet |-> Append(rows, Row(item_id, links)),
               ids |-> ids \cup {item_id}]
         ELSE [sheet |-> rows, ids |-> ids]

(* --------------------------- asset processing -------------------------- *)

\* process_asset: TRUE when the asset yields a Drive link, FALSE for None.
\* has_url: the asset has public_url and name; downloaded: download_file
\* returned content; built: the Drive client was built; uploaded:
\* upload_to_drive returned a link.
process_asset(has_url, downloaded, built, uploaded) ==
    IF ~has_url THEN FALSE
    ELSE IF ~downloaded THEN FALSE
    ELSE IF ~built THEN FALSE
    ELSE uploaded

(* ------------------------------ page fetch ----------------------------- *)

\* What one requests.post of fetch_monday_page meets:
\*   "ok"        a page of data
\*   "transport" requests.exceptions.RequestException
\*   "expired"   an errors entry whose message has CursorExpiredError
\*   "gqlerror"  another errors entry
\*   "noboards"  data without boards
\*   "malformed" a 200 answer whose JSON has not the expected shape ("data"
\*               or the items page is null, or the body is no object): the
\*               .get on it raises AttributeError
Responses == {"ok", "transport", "expired", "gqlerror", "noboards",
              "malformed"}

\* range(3)
FetchAttempts == 3

\* The except clause of the retry loop: requests.exceptions.RequestException.
RetryCatches_any(resp) == resp \in {"transport", "expired"}

RetryCatches_errors(resp) == resp \in {"transport", "gqlerror", "noboards"}

RetryCatches(resp) == resp = "transport"

\* time.sleep(2 ** attempt), after a failed attempt.
backoff_flat(att) == 1

backoff(att) == 2 ^ att

\* The except clause of main's inner try: CursorExpiredException.
MainCatches(resp) == resp = "expired"

(* ------------------------------- state --------------------------------- *)

VARIABLES
    board,              \* the items of the board, by sequence number
    stateFile,          \* migration_state.txt
    sheet,              \* the rows of the Google Sheet
    pc,                 \* where main is
    START_ITEM,         \* main's START_ITEM
    existing_ids,       \* main's existing_ids
    cursor,             \* the generator's cursor (0: None)
    fetched,            \* the generator has fetched a page
    page,               \* items of the fetched page not yet yielded
    current_item_num,   \* enumerate's counter
    attempt,            \* fetch_monday_page's attempt
    pending,            \* assets of the item whose future is not done
    drive_links,        \* main's drive_links
    crashes,            \* times the process was killed
    faults,             \* failed calls so far
    resumed,            \* this pass of the outer loop follows a cursor expiry
    lastResp,           \* the response of the latest request of this pass
    envFault,           \* a call to the upstream, Drive or Sheets has failed
    firstHandled,       \* first item handled in this pass (0: none yet)
    killedAfterWrite,   \* the process was killed between a write and its save
    callSizes,          \* records of each ledger request (counted in SpecBatch)
    interrupted,        \* a KeyboardInterrupt has reached the main thread
    fetchSleeps,        \* the sleeps of the fetch_monday_page call, in seconds
    progress,           \* the items main began and completed, over all runs
    \* google_service.py
    ledger,             \* the rows of the Google Sheet
    index,              \* existing_ids: id -> row number
    syncPc,             \* "init" before get_existing_ids, then "ready"
    indexRead,          \* get_existing_ids read the sheet
    lastSync,           \* the latest sync_batch call, as its caller meets it
    syncCalls,          \* sync_batch calls of this run so far
    \* compress_image
    compress,           \* the call: its input, where it is, its result
    \* load_state on the text of the state file
    loadCall,           \* the call: the file it finds, its result
    \* fetch_monday_items_generator of monday_service.py
    gen,                \* the generator: the upstream pages, where it is
    \* get_existing_ids on the identifying column
    indexCall,          \* the call: the column it reads, its result
    \* upload_to_drive and process_asset of the workers of one item
    up                  \* the folder, the workers, what the caller collects

mainVars == <<board, stateFile, sheet, pc, START_ITEM, existing_ids, cursor,
              fetched, page, current_item_num, attempt, pending, drive_links,
              crashes, faults, resumed, lastResp, envFault, firstHandled,
              killedAfterWrite, callSizes, interrupted, fetchSleeps,
              progress>>

syncVars == <<ledger, index, syncPc, indexRead, lastSync, syncCalls>>

compressVars == <<compress>>

loadVars == <<loadCall>>

genVars == <<gen>>

indexVars == <<indexCall>>

uploadVars == <<up>>

vars == <<mainVars, syncVars, compressVars, loadVars, genVars, indexVars,
          uploadVars>>

\* What the actions of main leave alone.
outside == <<syncVars, compressVars, loadVars, genVars, indexVars, uploadVars>>

\* What the actions of the other specifications leave alone.
restOfSync == <<mainVars, compressVars, loadVars, genVars, indexVars,
               uploadVars>>

restOfCompress == <<mainVars, syncVars, loadVars, genVars, indexVars,
                   uploadVars>>

restOfLoad == <<mainVars, syncVars, compressVars, genVars, indexVars,
               uploadVars>>

restOfGen == <<mainVars, syncVars, compressVars, loadVars, indexVars,
              uploadVars>>

restOfIndex == <<mainVars, syncVars, compressVars, loadVars, genVars,
                uploadVars>>

restOfUpload == <<mainVars, syncVars, compressVars, loadVars, genVars,
                 indexVars>>

memory == <<START_ITEM, existing_ids, cursor, fetched, page,
            current_item_num, attempt, pending, drive_links>>

ghosts == <<crashes, faults, resumed, lastResp, envFault, firstHandled,
            killedAfterWrite>>

NItems == Len(board)

\* A call may fail while the behaviour has failures left.
MayFail == faults < MaxFaults

Fault(failed) == faults' = IF failed THEN faults + 1 ELSE faults

Outcomes == IF MayFail THEN BOOLEAN ELSE {TRUE}

\* main has not run: no state file, an empty sheet.
InitMain ==
    /\ stateFile = Absent
    /\ sheet = <<>>
    /\ pc = "start"
    /\ START_ITEM = 1
    /\ existing_ids = {}
    /\ cursor = 0
    /\ fetched = FALSE
    /\ page = <<>>
    /\ current_item_num = 0
    /\ attempt = 0
    /\ pending = {}
    /\ drive_links = {}
    /\ crashes = 0
    /\ resumed = FALSE
    /\ lastResp = "none"
    /\ envFault = FALSE
    /\ firstHandled = 0
    /\ killedAfterWrite = FALSE
    /\ interrupted = FALSE
    /\ fetchSleeps = <<>>
    /\ progress = [begun |-> 0, completed |-> 0, saveFailed |-> FALSE,
                   crashBegun |-> 0, crashInflight |-> 0,
                   linkless |-> {}, runRows |-> 0, runIds |-> {}]

\* The variables of the other specifications, at rest.
SyncIdle ==
    /\ ledger = <<>>
    /\ index = <<>>
    /\ syncPc = "idle"
    /\ indexRead = FALSE
    /\ lastSync = [called |-> FALSE]
    /\ syncCalls = 0

CompressIdle == compress = [phase |-> "idle"]

LoadIdle == loadCall = [phase |-> "idle"]

GenIdle == gen = [phase |-> "idle"]

IndexIdle == indexCall = [phase |-> "idle"]

UploadIdle == up = [phase |-> "idle"]

Init ==
    /\ board \in Boards
    /\ faults = 0
    /\ InitMain
    /\ callSizes = <<>>
    /\ SyncIdle
    /\ CompressIdle
    /\ LoadIdle
    /\ GenIdle
    /\ IndexIdle
    /\ UploadIdle

(* ------------------------------- main ---------------------------------- *)

\* main, lines 505-521: load_state, get_google_credentials, the Sheets
\* client, get_existing_ids.
Start ==
    /\ pc = "start"
    /\ \E read_ok \in Outcomes :
          /\ existing_ids' = get_existing_ids(sheet, read_ok)
          /\ Fault(~read_ok)
    /\ START_ITEM' = load_state(stateFile)
    /\ pc' = "loop"
    /\ UNCHANGED <<board, stateFile, sheet, cursor, fetched, page,
                   current_item_num, attempt, pending, drive_links, crashes,
                   resumed, lastResp, envFault, firstHandled,
                   killedAfterWrite>>
    /\ UNCHANGED <<callSizes, interrupted, fetchSleeps, outside>>
    /\ progress' = [progress EXCEPT !.runRows = Len(sheet),
                                    !.runIds = existing_ids']

\* A main that saved its offset before it looked at the credentials.
StartNoCredentials_savesFirst ==
    /\ pc = "start"
    /\ MayFail
    /\ Fault(TRUE)
    /\ START_ITEM' = load_state(stateFile)
    /\ stateFile' = Digits(load_state(stateFile))
    /\ envFault' = TRUE
    /\ pc' = "done"
    /\ UNCHANGED <<board, sheet, existing_ids, cursor, fetched,
                   page, current_item_num, attempt, pending, drive_links,
                   crashes, resumed, lastResp, firstHandled,
                   killedAfterWrite>>
    /\ UNCHANGED <<callSizes, interrupted, fetchSleeps, outside, progress>>

\* main, lines 510-514: get_google_credentials returned None.
StartNoCredentials ==
    /\ pc = "start"
    /\ MayFail
    /\ Fault(TRUE)
    /\ START_ITEM' = load_state(stateFile)
    /\ envFault' = TRUE
    /\ pc' = "done"
    /\ UNCHANGED <<board, stateFile, sheet, existing_ids, cursor, fetched,
                   page, current_item_num, attempt, pending, drive_links,
                   crashes, resumed, lastResp, firstHandled,
                   killedAfterWrite>>
    /\ UNCHANGED <<callSizes, interrupted, fetchSleeps, outside, progress>>

\* The top of the while loop (after time.sleep(5) when the pass before ended
\* by cursor expiry): load_state, a fresh generator, enumerate from 1.
LoopTop ==
    /\ pc \in {"loop", "sleep"}
    /\ START_ITEM' = load_state(stateFile)
    /\ cursor' = 0
    /\ fetched' = FALSE
    /\ page' = <<>>
    /\ current_item_num' = 0
    /\ attempt' = 0
    /\ resumed' = (pc = "sleep")
    /\ lastResp' = "none"
    /\ firstHandled' = 0
    /\ pc' = "gen"
    /\ UNCHANGED <<board, stateFile, sheet, existing_ids, pending,
                   drive_links, crashes, faults, envFault, killedAfterWrite>>
    /\ UNCHANGED <<callSizes, interrupted, outside, progress>>
    /\ fetchSleeps' = <<>>

\* The responses a request can meet in this state.
Answers == IF MayFail THEN Responses ELSE {"ok", "transport", "expired"}

\* The generator needs a page: one requests.post of fetch_monday_page.
Request(resp) ==
    /\ pc = "gen"
    /\ page = <<>>
    /\ ~(fetched /\ cursor = 0)
    /\ resp \in Answers
    /\ resp = "expired" => cursor # 0    \* only a cursor can have expired
    /\ lastResp' = resp
    /\ IF RetryCatches(resp)
       THEN \* logged, time.sleep(2 ** attempt), next attempt or give up
            IF attempt + 1 < FetchAttempts
            THEN /\ attempt' = attempt + 1
                 /\ UNCHANGED <<cursor, fetched, page, pc, envFault, faults>>
            ELSE /\ attempt' = 0
                 /\ page' = <<>>
                 /\ cursor' = 0
                 /\ fetched' = TRUE
                 /\ envFault' = TRUE
                 /\ UNCHANGED <<pc, faults>>
       ELSE IF resp = "expired"
       THEN \* raise CursorExpiredException: through the generator to main
            /\ pc' = IF MainCatches(resp) THEN "sleep" ELSE "raised"
            /\ attempt' = 0
            /\ UNCHANGED <<cursor, fetched, page, envFault, faults>>
       ELSE IF resp = "malformed"
       THEN \* AttributeError: no except clause of fetch_monday_page, of the
            \* generator or of main names it
            /\ pc' = IF RetryCatches(resp) \/ MainCatches(resp)
                     THEN "sleep" ELSE "raised"
            /\ attempt' = 0
            /\ envFault' = TRUE
            /\ Fault(TRUE)
            /\ UNCHANGED <<cursor, fetched, page>>
       ELSE IF resp = "ok"
       THEN LET p == IF cursor = 0 THEN 1 ELSE cursor IN
            /\ page' = PageItems(NItems, p)
            /\ cursor' = PageCursor(NItems, p)
            /\ fetched' = TRUE
            /\ attempt' = 0
            /\ UNCHANGED <<pc, envFault, faults>>
       ELSE \* GraphQL errors, or no board data: return [], None
            /\ page' = <<>>
            /\ cursor' = 0
            /\ fetched' = TRUE
            /\ attempt' = 0
            /\ envFault' = TRUE
            /\ Fault(TRUE)
            /\ UNCHANGED pc
    /\ UNCHANGED <<board, stateFile, sheet, START_ITEM, existing_ids,
                   current_item_num, pending, drive_links, crashes, resumed,
                   firstHandled, killedAfterWrite>>
    /\ UNCHANGED <<callSizes, interrupted, outside, progress>>
    /\ fetchSleeps' = IF RetryCatches(resp)
                      THEN Append(fetchSleeps, backoff(attempt))
                      ELSE <<>>

\* The generator is exhausted (the last page had no cursor): the for loop
\* ends and main breaks out of the while loop.
StreamEnd ==
    /\ pc = "gen"
    /\ page = <<>>
    /\ fetched /\ cursor = 0
    /\ pc' = "done"
    /\ UNCHANGED <<board, stateFile, sheet, memory, ghosts>>
    /\ UNCHANGED <<callSizes, interrupted, fetchSleeps, outside, progress>>

\* "Skip items that have already been processed."
SkipProcessed_never(num, start) == FALSE

SkipProcessed(num, start) == num < start

\* The for body up to the pool, for the item the generator yields.
NextItem ==
    /\ pc = "gen"
    /\ page # <<>>
    /\ LET num == current_item_num + 1
           item == board[Head(page)]
       IN /\ current_item_num' = num
          /\ page' = Tail(page)
          /\ IF SkipProcessed(num, START_ITEM)
             THEN UNCHANGED <<pc, pending, drive_links, firstHandled>>
             ELSE /\ firstHandled' =
                        IF firstHandled = 0 THEN num ELSE firstHandled
                  /\ IF ~item_name(item) \/ item_assets(item) = {}
                     THEN \* save_state(current_item_num + 1); continue
                          /\ pc' = "save"
                          /\ UNCHANGED <<pending, drive_links>>
                     ELSE \* submit process_asset for every asset
                          /\ pc' = "pool"
                          /\ pending' = item_assets(item)
                          /\ drive_links' = {}
    /\ UNCHANGED <<board, stateFile, sheet, START_ITEM, existing_ids, cursor,
                   fetched, attempt, crashes, faults, resumed, lastResp,
                   envFault, killedAfterWrite>>
    /\ UNCHANGED <<callSizes, interrupted, fetchSleeps, outside>>
    /\ progress' =
          IF SkipProcessed(current_item_num + 1, START_ITEM) THEN progress
          ELSE [progress EXCEPT
                   !.begun = IF current_item_num + 1 > @
                             THEN current_item_num + 1 ELSE @]

\* One future completes: process_asset ran for asset a, and as_completed
\* hands its result to main.
WorkerDone(a) ==
    /\ pc = "pool"
    /\ a \in pending
    /\ \E has_url, downloaded, built, uploaded \in Outcomes :
          LET link == process_asset(has_url, downloaded, built, uploaded) IN
          /\ drive_links' = IF link THEN drive_links \cup {a} ELSE drive_links
          /\ envFault' = (envFault \/ ~link)
          /\ Fault(~link)
    /\ pending' = pending \ {a}
    /\ UNCHANGED <<board, stateFile, sheet, pc, START_ITEM, existing_ids,
                   cursor, fetched, page, current_item_num, attempt, crashes,
                   resumed, lastResp, firstHandled, killedAfterWrite>>
    /\ UNCHANGED <<callSizes, interrupted, fetchSleeps, outside, progress>>

\* The with block of the executor is left: shutdown(wait=True) has joined
\* every worker, as_completed has handed over every future.
PoolJoined_early(p) == TRUE

PoolJoined(p) == p = {}

\* The pool is joined: append_to_sheet when there are links.
RecordWrite ==
    /\ pc = "pool"
    /\ PoolJoined(pending)
    /\ IF drive_links # {}
       THEN \E ok \in Outcomes :
               LET id == current_item_num
                   r == append_to_sheet(sheet, existing_ids, id,
                                        drive_links, ok)
               IN /\ sheet' = r.sheet
                  /\ existing_ids' = r.ids
                  /\ envFault' = (envFault \/ (id \notin existing_ids /\ ~ok))
                  /\ Fault(~ok)
       ELSE UNCHANGED <<sheet, existing_ids, envFault, faults>>
    /\ pc' = "save"
    /\ UNCHANGED <<board, stateFile, START_ITEM, cursor, fetched, page,
                   current_item_num, attempt, pending, drive_links, crashes,
                   resumed, lastResp, firstHandled, killedAfterWrite>>
    /\ UNCHANGED <<interrupted, fetchSleeps, outside, progress>>

\* Record as main runs it.
Record == RecordWrite /\ UNCHANGED callSizes

\* Record, with the append request it issues (one record) noted.
RecordCounted ==
    /\ RecordWrite
    /\ callSizes' =
          IF drive_links # {} /\ current_item_num \notin existing_ids
          THEN Append(callSizes, 1)
          ELSE callSizes

\* The argument main hands to save_state: "the number of the next item".
NextOffset_skipsOne(num) == num + 2

NextOffset(num) == num + 1

\* save_state(current_item_num + 1), the last statement of the for body.
Save ==
    /\ pc = "save"
    /\ \E outcome \in (IF MayFail THEN SaveOutcomes ELSE {"ok"}) :
          /\ stateFile' = save_state(stateFile, NextOffset(current_item_num),
                                   outcome)
          /\ Fault(outcome # "ok")
    /\ drive_links' = {}
    /\ pc' = "gen"
    /\ UNCHANGED <<board, sheet, START_ITEM, existing_ids, cursor, fetched,
                   page, current_item_num, attempt, pending, crashes, resumed,
                   lastResp, envFault, firstHandled, killedAfterWrite>>
    /\ UNCHANGED <<callSizes, interrupted, fetchSleeps, outside>>
    /\ progress' =
          [progress EXCEPT
              !.completed = IF current_item_num > @ THEN current_item_num
                            ELSE @,
              !.saveFailed = @ \/ stateFile' # Digits(NextOffset(current_item_num)),
              !.linkless = IF /\ item_assets(board[current_item_num]) # {}
                              /\ drive_links = {}
                           THEN @ \cup {current_item_num} ELSE @]

\* The item main is handling has assets (it went through the pool).
HasAssets(num) == item_assets(board[num]) # {}

\* The process is killed and main is started again: what main held in memory
\* is gone, the state file and the sheet stay.  A kill inside save_state,
\* between the truncation by open and the write, leaves the file empty.
Crash ==
    /\ pc \in {"loop", "sleep", "gen", "pool", "save"}
    /\ crashes < MaxCrashes
    /\ crashes' = crashes + 1
    /\ stateFile' \in (IF pc = "save" THEN {stateFile, Empty} ELSE {stateFile})
    /\ killedAfterWrite' =
          (killedAfterWrite
             \/ (pc = "save" /\ HasAssets(current_item_num)
                 /\ drive_links # {}))
    /\ pc' = "start"
    /\ START_ITEM' = 1
    /\ existing_ids' = {}
    /\ cursor' = 0
    /\ fetched' = FALSE
    /\ page' = <<>>
    /\ current_item_num' = 0
    /\ attempt' = 0
    /\ pending' = {}
    /\ drive_links' = {}
    /\ resumed' = FALSE
    /\ lastResp' = "none"
    /\ firstHandled' = 0
    /\ UNCHANGED <<board, sheet, faults, envFault>>
    /\ UNCHANGED <<callSizes, interrupted, outside>>
    /\ progress' =
          [progress EXCEPT
              !.crashBegun = progress.begun,
              !.runRows = Len(sheet),
              !.runIds = {},
              !.crashInflight = IF pc \in {"pool", "save"}
                                THEN current_item_num ELSE 0]
    /\ fetchSleeps' = <<>>

\* The statements of main inside "try: ... except KeyboardInterrupt": the
\* while loop (lines 523-603), not the setup before it (lines 505-521).
InTry(at) == at # "start"

\* Ctrl+C: KeyboardInterrupt is raised in the main thread.  Inside the try
\* it is logged and main returns; the with block of the pool joins the
\* workers on the way out and their results are dropped.  Raised inside
\* save_state after open has truncated the file, it leaves the file empty
\* (except Exception does not catch it).
Interrupt ==
    /\ pc \in {"start", "loop", "sleep", "gen", "pool", "save"}
    /\ interrupted' = TRUE
    /\ pc' = IF InTry(pc) THEN "interrupted" ELSE "raised"
    /\ stateFile' \in (IF pc = "save" THEN {stateFile, Empty} ELSE {stateFile})
    /\ START_ITEM' = 1
    /\ existing_ids' = {}
    /\ cursor' = 0
    /\ fetched' = FALSE
    /\ page' = <<>>
    /\ current_item_num' = 0
    /\ attempt' = 0
    /\ pending' = {}
    /\ drive_links' = {}
    /\ resumed' = FALSE
    /\ lastResp' = "none"
    /\ firstHandled' = 0
    /\ fetchSleeps' = <<>>
    /\ UNCHANGED <<board, sheet, crashes, faults, envFault, killedAfterWrite,
                   callSizes, outside, progress>>

Next ==
    \/ Start
    \/ StartNoCredentials
    \/ LoopTop
    \/ \E resp \in Responses : Request(resp)
    \/ StreamEnd
    \/ NextItem
    \/ \E a \in {1, 2} : WorkerDone(a)
    \/ Record
    \/ Save
    \/ Crash
    \/ Interrupt

Spec == Init /\ [][Next]_vars

(* ------------------ main left alone, running to its end --------------- *)

\* The steps of main itself: no kill, no Ctrl+C.
NextLive ==
    \/ Start
    \/ StartNoCredentials
    \/ LoopTop
    \/ \E resp \in Responses : Request(resp)
    \/ StreamEnd
    \/ NextItem
    \/ \E a \in {1, 2} : WorkerDone(a)
    \/ Record
    \/ Save

\* main keeps running while it has a step to take; every request is
\* answered.  What the upstream answers is left open.
SpecLive == Init /\ [][NextLive]_vars /\ WF_vars(NextLive)

(* ------------------- main over a board of 2N+3 items ------------------- *)

\* The buffer threshold N of the batch-flush property, and M = 2N+3.
BatchN == 3

BatchItems == 2 * BatchN + 3

\* Every item has files and no call fails for good.
InitBatch ==
    /\ board = [i \in 1..BatchItems |-> "files"]
    /\ faults = MaxFaults
    /\ InitMain
    /\ callSizes = <<>>
    /\ SyncIdle
    /\ CompressIdle
    /\ LoadIdle
    /\ GenIdle
    /\ IndexIdle
    /\ UploadIdle

NextBatch ==
    \/ Start
    \/ LoopTop
    \/ \E resp \in Responses : Request(resp)
    \/ StreamEnd
    \/ NextItem
    \/ \E a \in {1, 2} : WorkerDone(a)
    \/ RecordCounted
    \/ Save

SpecBatch == InitBatch /\ [][NextBatch]_vars

(* ------------------------- google_service.py --------------------------- *)

MaxIds == 2

MaxBatch == 2

MaxRows == 4

MaxCalls == 2

Ids == 1..MaxIds

\* The link sets a record may carry.
BatchLinks == {{1}, {1, 2}}

BatchRecords == [id : Ids, links : BatchLinks]

Batches == UNION {[1..n -> BatchRecords] : n \in 1..MaxBatch}

\* The sheets a run may find: rows of earlier runs, one per id.
Sheets ==
    {s \in UNION {[1..n -> BatchRecords] : n \in 0..MaxIds} :
        \A j, k \in 1..Len(s) : s[j].id = s[k].id => j = k}

Max(S) == CHOOSE m \in S : \A x \in S : x <= m

\* A row of the values of B:B that holds no cell ('if row' skips it).
Blank == 0

\* The dict comprehension of get_existing_ids over the rows of the column:
\* {str(row[0]): i + 1 for i, row in enumerate(rows) if row}; a key met again
\* takes the later row.  The empty dict when the read raises.
existing_ids_of_column(col, ok) ==
    IF ok
    THEN [id \in {col[k] : k \in 1..Len(col)} \ {Blank} |->
             Max({k \in 1..Len(col) : col[k] = id})]
    ELSE <<>>

\* get_existing_ids of google_service.py: id -> row number (the last row of
\* an id wins), the empty dict when the read raises.
google_service_get_existing_ids(rows, ok) ==
    existing_ids_of_column([k \in 1..Len(rows) |-> rows[k].id], ok)

\* _execute_with_retry: the attempts of range(5); each 429 answer is retried,
\* another HttpError is raised at once, five 429 answers raise.
ExecuteAttempts == 5

execute_with_retry(n429, final) ==
    IF n429 >= ExecuteAttempts THEN "raise" ELSE final

\* sleep_time = (2 ** attempt) + 1, before the attempt after a 429 answer.
sleep_time(att) == (2 ^ att) + 1

\* The sleeps of one _execute_with_retry that meets n429 answers of 429.
RetrySleeps(n429) ==
    {[attempt |-> a, slept |-> sleep_time(a)] :
        a \in 0..(Min(n429, ExecuteAttempts) - 1)}

\* The records of the batch sync_batch turns into updates, in batch order.
updates_data(batch, idx) ==
    SelectSeq(batch, LAMBDA r : r.id \in DOMAIN idx)

new_rows_all(batch, idx) == batch

new_rows(batch, idx) ==
    SelectSeq(batch, LAMBDA r : r.id \notin DOMAIN idx)

\* values().batchUpdate: each range of the request is written, in order.
RECURSIVE batchUpdate(_, _, _)
batchUpdate(rows, idx, ups) ==
    IF ups = <<>> THEN rows
    ELSE batchUpdate([rows EXCEPT ![idx[Head(ups).id]] =
                         Row(Head(ups).id, Head(ups).links)],
                     idx, Tail(ups))

\* The loop over enumerate(new_rows): existing_ids[id] = start_row + i.
RECURSIVE IndexAppended(_, _, _)
IndexAppended(idx, rows_new, start_row) ==
    IF rows_new = <<>> THEN idx
    ELSE IndexAppended(
           [id \in DOMAIN idx \cup {Head(rows_new).id} |->
               IF id = Head(rows_new).id THEN start_row ELSE idx[id]],
           Tail(rows_new), start_row + 1)

\* sync_batch: upd and app are the outcomes of the two requests, range_ok
\* says the append response carries an updatedRange the regex matches.
sync_batch(rows, idx, batch, upd, app, range_ok) ==
    LET ups == updates_data(batch, idx)
        new == new_rows(batch, idx)
        rows1 == IF ups # <<>> THEN batchUpdate(rows, idx, ups) ELSE rows
    IN  IF ups # <<>> /\ upd = "raise"
        THEN [ledger |-> rows, index |-> idx]
        ELSE IF new = <<>> \/ app = "raise"
        THEN [ledger |-> rows1, index |-> idx]
        ELSE [ledger |-> rows1 \o [k \in 1..Len(new) |->
                                      Row(new[k].id, new[k].links)],
              index |-> IF range_ok
                        THEN IndexAppended(idx, new, Len(rows1) + 1)
                        ELSE idx]

\* A request of sync_batch raised inside its try block.
sync_failed(idx, batch, upd, app) ==
    \/ updates_data(batch, idx) # <<>> /\ upd = "raise"
    \/ new_rows(batch, idx) # <<>> /\ app = "raise"

\* What the caller of sync_batch meets.  The whole body is inside
\* try/except Exception, which logs the error: the call returns None on
\* every path.
sync_batch_raises(failed) == FALSE

\* The requests one sync_batch call issues, in order: values().batchUpdate
\* with one range A{row}:E{row} per update, then values().append with the new
\* rows; the append is not reached when the batchUpdate raised.
sync_requests(idx, batch, upd) ==
    LET ups == updates_data(batch, idx)
        new == new_rows(batch, idx)
    IN  (IF ups # <<>>
         THEN << [kind |-> "batchUpdate",
                  data |-> [k \in 1..Len(ups) |->
                              [row |-> idx[ups[k].id], values |-> ups[k]]]] >>
         ELSE <<>>)
        \o (IF new # <<>> /\ ~(ups # <<>> /\ upd = "raise")
            THEN << [kind |-> "append",
                     data |-> [k \in 1..Len(new) |->
                                 [row |-> 0, values |-> new[k]]]] >>
            ELSE <<>>)

\* The append request of the call was made and answered.
sync_appended(idx, batch, upd, app) ==
    /\ new_rows(batch, idx) # <<>>
    /\ ~(updates_data(batch, idx) # <<>> /\ upd = "raise")
    /\ app = "ok"

\* The sleeps of the two requests of one sync_batch call.
sync_sleeps(idx, batch, n_upd, upd, n_app) ==
    LET ups == updates_data(batch, idx)
        new == new_rows(batch, idx)
    IN  (IF ups # <<>> THEN RetrySleeps(n_upd) ELSE {})
           \cup (IF new # <<>> /\ ~(ups # <<>> /\ upd = "raise")
                 THEN RetrySleeps(n_app) ELSE {})

MainIdle ==
    /\ board = [i \in 1..MaxItems |-> "noname"]
    /\ faults = 0
    /\ InitMain
    /\ callSizes = <<>>

InitSync ==
    /\ ledger \in Sheets
    /\ index = <<>>
    /\ syncPc = "init"
    /\ indexRead = FALSE
    /\ lastSync = [called |-> FALSE]
    /\ syncCalls = 0
    /\ MainIdle
    /\ CompressIdle
    /\ LoadIdle
    /\ GenIdle
    /\ IndexIdle
    /\ UploadIdle

\* The run reads the index once.
ReadIndex ==
    /\ syncPc = "init"
    /\ \E ok \in BOOLEAN :
         /\ index' = google_service_get_existing_ids(ledger, ok)
         /\ indexRead' = ok
    /\ syncPc' = "ready"
    /\ UNCHANGED <<ledger, lastSync, syncCalls, restOfSync>>

\* What one request meets: answers of 429 first, then success or another
\* error (with five answers of 429 there is no sixth attempt).
RequestOutcomes ==
    {[n429 |-> 0, final |-> "ok"],
     [n429 |-> 0, final |-> "raise"],
     [n429 |-> ExecuteAttempts - 1, final |-> "ok"],
     [n429 |-> ExecuteAttempts, final |-> "raise"]}

\* One call of sync_batch with the shared index.
SyncBatch ==
    /\ syncPc = "ready"
    /\ syncCalls < MaxCalls
    /\ syncCalls' = syncCalls + 1
    /\ \E batch \in Batches, range_ok \in BOOLEAN,
          o_upd, o_app \in RequestOutcomes :
         /\ Len(ledger) + Len(batch) <= MaxRows
         \* a request that is not made has no outcome to choose
         /\ updates_data(batch, index) = <<>>
               => o_upd = [n429 |-> 0, final |-> "ok"]
         /\ (\/ new_rows(batch, index) = <<>>
             \/ /\ updates_data(batch, index) # <<>>
                /\ execute_with_retry(o_upd.n429, o_upd.final) = "raise")
               => o_app = [n429 |-> 0, final |-> "ok"]
         /\ ~sync_appended(index, batch,
                           execute_with_retry(o_upd.n429, o_upd.final),
                           execute_with_retry(o_app.n429, o_app.final))
               => range_ok
         /\ LET n_upd == o_upd.n429
                n_app == o_app.n429
                upd == execute_with_retry(n_upd, o_upd.final)
                app == execute_with_retry(n_app, o_app.final)
                r == sync_batch(ledger, index, batch, upd, app, range_ok)
                failed == sync_failed(index, batch, upd, app)
            IN  /\ ledger' = r.ledger
                /\ index' = r.index
                /\ lastSync' =
                      [called |-> TRUE,
                       failed |-> failed,
                       raised |-> sync_batch_raises(failed),
                       sleeps |-> sync_sleeps(index, batch, n_upd, upd,
                                              n_app),
                       batch |-> batch,
                       before |-> index,
                       requests |-> sync_requests(index, batch, upd),
                       appended |-> sync_appended(index, batch, upd, app),
                       start_row |-> Len(ledger) + 1]
    /\ UNCHANGED <<syncPc, indexRead, restOfSync>>

NextSync == ReadIndex \/ SyncBatch

SpecSync == InitSync /\ [][NextSync]_vars

(* --------------------------- compress_image ---------------------------- *)

\* Sizes in units of half the threshold: TargetSize stands for 1.0 MB.
MaxSize == 4

TargetSize == 2

StartQuality == 85

QualityStep == 10

QualityFloor == 20

\* What Image.open finds: its format and mode, or no image at all.
Contents ==
    {[format |-> "JPEG", mode |-> "RGB"],
     [format |-> "PNG", mode |-> "RGBA"],
     [format |-> "PNG", mode |-> "P"],
     [format |-> "PNG", mode |-> "LA"],
     [format |-> "GIF", mode |-> "P"],
     [format |-> "none", mode |-> "none"]}

\* img.convert('RGB') for the modes the code converts.
convert(mode) == IF mode \in {"RGBA", "P"} THEN "RGB" ELSE mode

\* The modes the JPEG writer accepts; img.save raises for the others.
JpegWrites(mode) == mode \in {"RGB", "L", "CMYK"}

\* The return of the original data: (file_content, filename).
Original(c) ==
    [c EXCEPT !.phase = "returned", !.out = c.size, !.kept = TRUE]

\* The loop condition of the quality loop.
KeepsReducing(out, quality) == out > TargetSize /\ quality > QualityFloor

InitCompress ==
    /\ compress \in [phase : {"called"}, size : 1..MaxSize, content : Contents,
                     quality : {0}, out : {0}, kept : {FALSE}]
    /\ MainIdle
    /\ SyncIdle
    /\ LoadIdle
    /\ GenIdle
    /\ IndexIdle
    /\ UploadIdle

\* From the size test to the first img.save at quality 85.
CompressOpen ==
    /\ compress.phase = "called"
    /\ IF compress.size <= TargetSize
       THEN compress' = Original(compress)
       ELSE IF compress.content.format = "none"
       THEN compress' = Original(compress)
       ELSE IF compress.content.format \notin {"JPEG", "PNG"}
       THEN compress' = Original(compress)
       ELSE IF ~JpegWrites(convert(compress.content.mode))
       THEN compress' = Original(compress)
       ELSE \E s \in 1..MaxSize :
              compress' = [compress EXCEPT !.phase = "encoding",
                                           !.quality = StartQuality,
                                           !.out = s]
    /\ UNCHANGED restOfCompress

\* One turn of the while loop: quality -= 10, img.save again.
CompressReduce ==
    /\ compress.phase = "encoding"
    /\ KeepsReducing(compress.out, compress.quality)
    /\ \E s \in 1..MaxSize :
         compress' = [compress EXCEPT !.quality = compress.quality - QualityStep,
                                      !.out = s]
    /\ UNCHANGED restOfCompress

\* The loop is left: the encoded bytes and the .jpg name are returned.
CompressReturn ==
    /\ compress.phase = "encoding"
    /\ ~KeepsReducing(compress.out, compress.quality)
    /\ compress' = [compress EXCEPT !.phase = "returned"]
    /\ UNCHANGED restOfCompress

NextCompress == CompressOpen \/ CompressReduce \/ CompressReturn

SpecCompress == InitCompress /\ [][NextCompress]_vars

(* ------------------- load_state on the file's text --------------------- *)

MaxText == 3

\* The characters of a state file: decimal digits, whitespace, a letter, and
\* SUPERSCRIPT TWO, for which str.isdigit is true and int raises ValueError.
Chars == {"0", "1", " ", "x", "sup2"}

DecimalChars == {"0", "1", "2", "3", "4", "5", "6", "7", "8", "9"}

\* The decimal digits, by value + 1.
DigitSeq == <<"0", "1", "2", "3", "4", "5", "6", "7", "8", "9">>

DigitValue(c) == (CHOOSE k \in 1..10 : DigitSeq[k] = c) - 1

DigitChars == DecimalChars \cup {"sup2"}

Texts == UNION {[1..n -> Chars] : n \in 0..MaxText}

\* What load_state finds at STATE_FILE.
StateFiles ==
    {[exists |-> FALSE, readable |-> FALSE, text |-> <<>>],
     [exists |-> TRUE, readable |-> FALSE, text |-> <<>>]}
      \cup {[exists |-> TRUE, readable |-> TRUE, text |-> t] : t \in Texts}

RECURSIVE lstrip(_)
lstrip(t) == IF t # <<>> /\ Head(t) = " " THEN lstrip(Tail(t)) ELSE t

RECURSIVE rstrip(_)
rstrip(t) ==
    IF t # <<>> /\ t[Len(t)] = " " THEN rstrip(SubSeq(t, 1, Len(t) - 1))
    ELSE t

\* str.strip()
strip(t) == rstrip(lstrip(t))

\* str.isdigit()
isdigit(t) == t # <<>> /\ \A k \in 1..Len(t) : t[k] \in DigitChars

\* int(val) raises ValueError
int_raises(t) == \E k \in 1..Len(t) : t[k] \notin DecimalChars

\* int(val), for decimal digits
RECURSIVE int(_)
int(t) ==
    IF t = <<>> THEN 0
    ELSE 10 * int(SubSeq(t, 1, Len(t) - 1)) + DigitValue(t[Len(t)])

\* The except clause of load_state: except Exception.
LoadCatches_oserror(exc) == exc = "OSError"

LoadCatches(exc) == exc \in {"OSError", "ValueError"}

Returned(v) == [value |-> v, raised |-> FALSE]

Raised == [value |-> 0, raised |-> TRUE]

\* load_state, on the text of the file.
load_state_text(file) ==
    IF ~file.exists THEN Returned(1)
    ELSE IF ~file.readable
    THEN IF LoadCatches("OSError") THEN Returned(1) ELSE Raised
    ELSE LET val == strip(file.text) IN
         IF isdigit(val)
         THEN IF int_raises(val)
              THEN IF LoadCatches("ValueError") THEN Returned(1) ELSE Raised
              ELSE Returned(int(val))
         ELSE Returned(1)

InitLoad ==
    /\ loadCall \in [phase : {"called"}, file : StateFiles,
                      result : {Returned(0)}]
    /\ MainIdle
    /\ SyncIdle
    /\ CompressIdle
    /\ GenIdle
    /\ IndexIdle
    /\ UploadIdle

LoadState ==
    /\ loadCall.phase = "called"
    /\ loadCall' = [loadCall EXCEPT !.phase = "returned",
                                    !.result = load_state_text(loadCall.file)]
    /\ UNCHANGED restOfLoad

NextLoad == LoadState

SpecLoad == InitLoad /\ [][NextLoad]_vars

(* ------------- fetch_monday_items_generator(start_item) ---------------- *)

MaxPages == 3

MaxStart == 6

\* The upstream: the sizes of its pages, each at most the page limit; every
\* page but the last comes with a cursor to the next.
Upstreams == UNION {[1..n -> 0..PageLimit] : n \in 1..MaxPages}

\* An item of the upstream: page and position on the page.
ItemsOfPage(p, n) == [i \in 1..n |-> <<p, i>>]

RECURSIVE AllItems(_, _)
AllItems(sizes, upto) ==
    IF upto = 0 THEN <<>>
    ELSE AllItems(sizes, upto - 1) \o ItemsOfPage(upto, sizes[upto])

RECURSIVE SizeSum(_, _)
SizeSum(sizes, upto) ==
    IF upto = 0 THEN 0 ELSE SizeSum(sizes, upto - 1) + sizes[upto]

\* The 1-based sequence number of an item over all pages.
SeqNo(sizes, it) == SizeSum(sizes, it[1] - 1) + it[2]

\* include_assets = (items_processed + 25 >= start_item); 25 is the page
\* limit of the queries.
include_assets_tight(items_processed, start_item) ==
    items_processed >= start_item

include_assets(items_processed, start_item) ==
    items_processed + PageLimit >= start_item

\* if items_processed >= start_item: yield item
Yields_after(items_processed, start_item) == items_processed > start_item

Yields(items_processed, start_item) == items_processed >= start_item

InitGen ==
    /\ gen \in [phase : {"running"}, sizes : Upstreams,
                 start_item : 1..MaxStart, cursor : {0}, at : {0}, idx : {0},
                 items_processed : {0}, yielded : {<<>>}, requests : {<<>>}]
    /\ MainIdle
    /\ SyncIdle
    /\ CompressIdle
    /\ LoadIdle
    /\ IndexIdle
    /\ UploadIdle

\* The top of the while loop: include_assets, fetch_monday_page(cursor, ...).
GenFetch ==
    /\ gen.phase = "running"
    /\ LET p == IF gen.cursor = 0 THEN 1 ELSE gen.cursor
           inc == include_assets(gen.items_processed, gen.start_item)
       IN gen' = [gen EXCEPT
                    !.phase = "page",
                    !.at = p,
                    !.idx = 0,
                    !.cursor = IF p < Len(gen.sizes) THEN p + 1 ELSE 0,
                    !.requests = Append(gen.requests,
                                        [page |-> p, assets |-> inc])]
    /\ UNCHANGED restOfGen

\* One turn of "for item in items".
GenItem ==
    /\ gen.phase = "page"
    /\ gen.idx < gen.sizes[gen.at]
    /\ LET n == gen.items_processed + 1 IN
       gen' = [gen EXCEPT
                 !.idx = gen.idx + 1,
                 !.items_processed = n,
                 !.yielded = IF Yields(n, gen.start_item)
                             THEN Append(gen.yielded, <<gen.at, gen.idx + 1>>)
                             ELSE gen.yielded]
    /\ UNCHANGED restOfGen

\* The page is done (or was empty): "if not cursor: break".
GenPageEnd ==
    /\ gen.phase = "page"
    /\ gen.idx = gen.sizes[gen.at]
    /\ gen' = [gen EXCEPT
                 !.phase = IF gen.cursor = 0 THEN "finished" ELSE "running"]
    /\ UNCHANGED restOfGen

NextGen == GenFetch \/ GenItem \/ GenPageEnd

SpecGen == InitGen /\ [][NextGen]_vars

(* ------------------------- properties of main -------------------------- *)

RowSet(rows) == {rows[k] : k \in 1..Len(rows)}

RowsFor(rows, id) == {k \in 1..Len(rows) : rows[k].id = id}

\* The ledger of a run over the board that is never killed and meets no
\* failing call: one row per item with assets, listing all its links.
UninterruptedLedger ==
    {Row(i, item_assets(board[i])) : i \in {j \in 1..NItems : HasAssets(j)}}

\* The persisted offset: what load_state reads from the state file.
Persisted == load_state(stateFile)

\* main is handling item current_item_num (pool, ledger write or save).
Handling == pc \in {"pool", "save"}

\* C1. Idempotent resume: when main has run to completion, however often the
\* process was killed and main restarted from the persisted offset (also
\* between a ledger write and the save after it), the set of rows of the
\* ledger is the one an uninterrupted run over the board produces.  The runs
\* compared meet the same upstream, Drive and Sheets: no call of theirs fails
\* for good in either.
C1_IdempotentResume ==
    (pc = "done" /\ ~envFault) => RowSet(sheet) = UninterruptedLedger

C1_Witness ==
    /\ pc = "done"
    /\ ~envFault
    /\ killedAfterWrite
    /\ sheet # <<>>

\* C2. Dedup under replay, as claimed: when main writes the record of an item
\* whose row the ledger already holds (the item is processed a second time),
\* the ledger afterwards holds exactly one row of that id, and the row lists
\* the links of this later write.
C2_DedupLaterWrite ==
    [][(/\ pc = "pool" /\ pc' = "save"
        /\ drive_links # {}
        /\ RowsFor(sheet, current_item_num) # {})
       => /\ Cardinality(RowsFor(sheet', current_item_num)) = 1
          /\ \A k \in RowsFor(sheet', current_item_num) :
                sheet'[k].links = drive_links]_vars

\* C4. Offset after the durable write, as claimed: a save that advances the
\* persisted offset past an item that produced a link happens only when the
\* ledger holds the item's row.
C4_OffsetAfterWrite ==
    [][(/\ pc = "save" /\ pc' = "gen"
        /\ HasAssets(current_item_num)
        /\ drive_links # {}
        /\ load_state(stateFile') > current_item_num)
       => RowsFor(sheet, current_item_num) # {}]_vars

\* C5. Monotone cursor, as claimed: while a run lives (no kill), no step
\* lowers the persisted offset.
C5_MonotoneCursor ==
    [][crashes' = crashes
       => load_state(stateFile') >= load_state(stateFile)]_vars

\* C6. Cursor-expiry recovery: in a pass of the outer loop that follows a
\* cursor expiry, the first item main handles is the item at the persisted
\* offset, and no item below the offset the pass reloaded is handled.
C6_ExpiryRecovery ==
    (resumed /\ Handling)
        => /\ current_item_num >= START_ITEM
           /\ firstHandled = current_item_num
                 => current_item_num = Persisted

C6_Witness ==
    /\ resumed
    /\ pc = "pool"
    /\ firstHandled = current_item_num
    /\ current_item_num > 1

\* C7. Skip-without-loss, as claimed: handling an item without name or
\* without assets leaves the persisted offset at the item's number + 1.
C7_SkipAdvances ==
    [][(pc = "save" /\ pc' = "gen" /\ ~HasAssets(current_item_num))
       => stateFile' = Digits(current_item_num + 1)]_vars

\* C7, amended. The ledger never holds a row of an item without name or
\* without assets, and handling such an item calls save_state with the
\* item's number + 1: the persisted offset becomes that number when the
\* write succeeds, and is as before or empty when it fails.
C7_SkipWithoutLoss ==
    /\ [](\A k \in 1..Len(sheet) : HasAssets(sheet[k].id))
    /\ [][(pc = "save" /\ pc' = "gen" /\ ~HasAssets(current_item_num))
          => /\ sheet' = sheet
             /\ stateFile' \in {Digits(current_item_num + 1), stateFile,
                                Empty}
             /\ faults' = faults => stateFile' = Digits(current_item_num + 1)
         ]_vars

C7_Witness ==
    /\ pc = "gen"
    /\ current_item_num > 1
    /\ ~HasAssets(current_item_num)
    /\ stateFile = Digits(current_item_num + 1)
    /\ sheet # <<>>

\* C8. Batch flush boundary, as claimed: over a board of M = 2N+3 items that
\* each have uploadable links, a run that reaches the end of the stream has
\* made exactly three ledger requests, two of N records and one of 3.
C8_BatchFlush ==
    (pc = "done" /\ ~envFault) => callSizes = <<BatchN, BatchN, 3>>

\* C10. A response with a cursor-expired error is neither retried nor
\* returned from: the exception reaches main's handler, which sleeps before
\* the next pass.
C10_ExpiryPropagates ==
    lastResp = "expired" => (pc = "sleep" /\ attempt = 0)

C10_Witness ==
    /\ lastResp = "expired"
    /\ pc = "sleep"
    /\ current_item_num > 0

(* ------------------- properties of google_service.py ------------------- *)

\* C3. Ledger uniqueness, as claimed: after any sequence of sync_batch calls
\* that share one index read by get_existing_ids, the ledger holds at most
\* one row per id.
C3_LedgerUnique ==
    (syncPc = "ready" /\ indexRead) =>
        \A id \in Ids : Cardinality(RowsFor(ledger, id)) <= 1

(* --------------------- properties of compress_image -------------------- *)

\* C9. Asset size bound, as claimed: the quality takes values from 85 down
\* by 10 and never below the floor 20; a recognized image above the threshold
\* is returned at most the threshold or encoded at the floor; an input at most
\* the threshold is returned as it came.
C9_SizeBound ==
    /\ compress.phase \in {"encoding", "returned"} /\ ~compress.kept
          => compress.quality >= QualityFloor
    /\ (compress.phase = "returned" /\ compress.size > TargetSize
           /\ compress.content.format \in {"JPEG", "PNG"})
          => /\ ~compress.kept
             /\ compress.out <= TargetSize \/ compress.quality = QualityFloor
    /\ (compress.phase = "returned" /\ compress.size <= TargetSize)
          => compress.kept /\ compress.out = compress.size

(* ----------------------- properties of save_state ---------------------- *)

\* C11. State save atomicity, as claimed: when the process is killed while
\* main is in save_state(n), load_state afterwards returns the offset that was
\* persisted before the call or n.
C11_SaveAtomic ==
    [][(pc = "save" /\ crashes' = crashes + 1)
          => load_state(stateFile') \in
                {load_state(stateFile), NextOffset(current_item_num)}]_vars

(* ------------------ properties of the ledger requests ------------------ *)

\* C12. As claimed: a sync_batch call in which a ledger request failed (an
\* error other than 429, or five answers of 429) raises to its caller.
C12_ErrorsSurfaced ==
    (lastSync.called /\ lastSync.failed) => lastSync.raised

(* ----------------------- properties of load_state ---------------------- *)

\* The file holds a numeric value: decimal digits, whitespace around them.
HoldsNumber(file) ==
    /\ file.exists /\ file.readable
    /\ \E i, j \in 1..Len(file.text) :
          /\ i <= j
          /\ \A k \in 1..Len(file.text) :
                IF i <= k /\ k <= j THEN file.text[k] \in DecimalChars
                ELSE file.text[k] = " "

C14_Containment == pc # "raised"

(* ---------------------- properties of the worker pool ------------------ *)

\* C15. No cross-item overlap: the tasks in flight are tasks of the item
\* main is handling, and main writes the ledger, saves the offset or takes
\* the next item only when no task is in flight.
C15_NoOverlap ==
    [][/\ pending # {} =>
            /\ pc = "pool"
            /\ pending \subseteq item_assets(board[current_item_num])
       /\ pending' # {} =>
            /\ pc' = "pool"
            /\ pending' \subseteq item_assets(board[current_item_num'])
       /\ (\/ sheet' # sheet
           \/ stateFile' # stateFile /\ crashes' = crashes
           \/ current_item_num' \notin {current_item_num, 0})
            => pending = {}]_vars

C15_Witness ==
    /\ pc = "pool"
    /\ current_item_num = 2
    /\ pending = {2}
    /\ drive_links = {1}
    /\ RowsFor(sheet, 1) # {}

(* ------------------------ properties of Ctrl+C ------------------------- *)

\* C16. Cancellation, as claimed: when the interrupt arrives, at any point
\* of main, no ledger row is written, the state file is left as it is (no
\* offset advanced, no content lost), and main returns through its
\* KeyboardInterrupt handler without raising.
C16_Cancellation ==
    [][(interrupted' /\ ~interrupted)
          => /\ sheet' = sheet
             /\ stateFile' = stateFile
             /\ pc' = "interrupted"]_vars

(* --------------------- properties of main's setup ---------------------- *)

\* C17. Fatal setup: when the credentials cannot be loaded, main returns
\* with the state file and the sheet as they were, no page fetched and no
\* task submitted.
C17_FatalSetup ==
    [][(pc = "start" /\ pc' = "done")
          => /\ stateFile' = stateFile
             /\ sheet' = sheet
             /\ ~fetched' /\ cursor' = 0 /\ page' = <<>>
             /\ pending' = {} /\ drive_links' = {}]_vars

C17_Witness ==
    /\ pc = "done"
    /\ ~fetched
    /\ crashes = 1
    /\ stateFile = Digits(2)
    /\ sheet # <<>>

(* ------------------- properties of fetch_monday_page ------------------- *)

\* C18. One call of fetch_monday_page meets at most 3 transport failures,
\* each followed by a sleep of 1 s, 2 s, 4 s in turn (1 s and 2 s between the
\* attempts); after the third the call has returned no items and no cursor,
\* and the item stream ends.
C18_FetchRetry ==
    /\ Len(fetchSleeps) <= 3
    /\ attempt < 3
    /\ attempt # 0 => Len(fetchSleeps) = attempt
    /\ \A k \in 1..Len(fetchSleeps) : fetchSleeps[k] = 2 ^ (k - 1)
    /\ Len(fetchSleeps) = 3 =>
          /\ pc \in {"gen", "done"}
          /\ page = <<>> /\ cursor = 0 /\ fetched
          /\ pc = "gen" => ENABLED StreamEnd /\ ~ENABLED NextItem

C18_Witness ==
    /\ fetchSleeps = <<1, 2, 4>>
    /\ pc = "done"
    /\ current_item_num > 0

(* ---------------------- properties of the backoff ---------------------- *)

\* C19. Backoff, as claimed for the ledger: every sleep of a sync_batch
\* request after a 429 answer at attempt a lasts 2^a seconds, and no attempt
\* beyond the fifth is made.
C19_Backoff ==
    lastSync.called =>
        \A w \in lastSync.sleeps :
            /\ w.attempt < 5
            /\ w.slept = 2 ^ w.attempt

(* ----------------------- properties of the run's end ------------------- *)

\* C20. Termination, as claimed: the run over a finite board eventually
\* reaches its end (main returns or raises).
C20_Termination == <>(pc \in {"done", "raised"})

(* ------------------- properties of the item generator ------------------ *)

\* The items the generator is to yield: those of all pages, in source
\* order, from sequence number start_item on.
ExpectedYield ==
    SelectSeq(AllItems(gen.sizes, Len(gen.sizes)),
              LAMBDA it : SeqNo(gen.sizes, it) >= gen.start_item)

\* C21. The generator yields, in source order and each once, the items of
\* sequence number >= start_item; it requests every page up to the first one
\* without a cursor, empty pages included, and none after it.
C21_Generator ==
    gen.phase # "idle" =>
       /\ Len(gen.yielded) <= Len(ExpectedYield)
       /\ gen.yielded = SubSeq(ExpectedYield, 1, Len(gen.yielded))
       /\ \A k \in 1..Len(gen.requests) : gen.requests[k].page = k
       /\ gen.phase = "finished" =>
             /\ gen.yielded = ExpectedYield
             /\ Len(gen.requests) = Len(gen.sizes)

C21_Witness ==
    /\ gen.phase = "finished"
    /\ gen.sizes = <<2, 0, 1>>
    /\ gen.start_item = 2
    /\ gen.yielded = << <<1, 2>>, <<3, 1>> >>

\* C22. Fast-forward safety: every item of a page requested without its
\* assets has a sequence number below start_item, so every item yielded
\* comes from a page requested with assets.
C22_FastForward ==
    gen.phase # "idle" =>
       /\ \A k \in 1..Len(gen.requests) :
             ~gen.requests[k].assets =>
                \A i \in 1..gen.sizes[k] :
                   SeqNo(gen.sizes, <<k, i>>) < gen.start_item
       /\ \A j \in 1..Len(gen.yielded) :
             gen.requests[gen.yielded[j][1]].assets

C22_Witness ==
    /\ gen.phase = "finished"
    /\ gen.sizes = <<2, 2>>
    /\ gen.start_item = 4
    /\ ~gen.requests[1].assets
    /\ gen.requests[2].assets
    /\ gen.yielded = << <<2, 2>> >>

(* ---------------------- properties of sync_batch ----------------------- *)

\* The positions of the requests of one kind in the latest call.
RequestsOf(kind) ==
    {k \in 1..Len(lastSync.requests) : lastSync.requests[k].kind = kind}

\* The records a request carries, in its order.
Carried(req) == [k \in 1..Len(req.data) |-> req.data[k].values]

\* C23. sync_batch issues at most one batchUpdate, carrying exactly the
\* records whose id is in the index, each addressed to its indexed row, and
\* at most one append, carrying exactly the other records in input order;
\* the batchUpdate comes first, and no request carries nothing.
C23_Partition ==
    lastSync.called =>
       LET b == lastSync.batch
           idx == lastSync.before
           reqs == lastSync.requests
       IN /\ Cardinality(RequestsOf("batchUpdate")) <= 1
          /\ Cardinality(RequestsOf("append")) <= 1
          /\ \A u \in RequestsOf("batchUpdate"), a \in RequestsOf("append") :
                u < a
          /\ \A k \in 1..Len(reqs) : reqs[k].data # <<>>
          /\ \A u \in RequestsOf("batchUpdate") :
                /\ Carried(reqs[u])
                      = SelectSeq(b, LAMBDA r : r.id \in DOMAIN idx)
                /\ \A k \in 1..Len(reqs[u].data) :
                      reqs[u].data[k].row = idx[reqs[u].data[k].values.id]
          /\ \A a \in RequestsOf("append") :
                Carried(reqs[a])
                   = SelectSeq(b, LAMBDA r : r.id \notin DOMAIN idx)
          /\ (\E k \in 1..Len(b) : b[k].id \in DOMAIN idx)
                => RequestsOf("batchUpdate") # {}
          /\ ((\E k \in 1..Len(b) : b[k].id \notin DOMAIN idx)
                /\ ~lastSync.failed)
                => RequestsOf("append") # {}

C23_Witness ==
    /\ lastSync.called
    /\ Len(lastSync.batch) = 2
    /\ Len(lastSync.requests) = 2
    /\ lastSync.requests[1].kind = "batchUpdate"
    /\ lastSync.requests[2].kind = "append"
    /\ ~lastSync.failed

\* C24. Index currency, as claimed: after a sync_batch call that appended
\* records, the index maps the id of each appended record to the row the
\* record was written to (start row of the append + position in the appended
\* list), and maps every other id as before.
C24_IndexCurrent ==
    (lastSync.called /\ lastSync.appended) =>
       LET appended == SelectSeq(lastSync.batch,
                                 LAMBDA r : r.id \notin DOMAIN lastSync.before)
       IN /\ \A k \in 1..Len(appended) :
                /\ appended[k].id \in DOMAIN index
                /\ index[appended[k].id] = lastSync.start_row + k - 1
                /\ ledger[lastSync.start_row + k - 1].id = appended[k].id
          /\ \A id \in DOMAIN lastSync.before : index[id] = lastSync.before[id]
          /\ DOMAIN index = DOMAIN lastSync.before
                              \cup {appended[k].id : k \in 1..Len(appended)}

(* ------------------- get_existing_ids on a column ---------------------- *)

MaxColumn == 4

\* The identifying column a run may find: cells of earlier runs and of the
\* people who edit the sheet, blank rows and repeated ids included.
Columns == UNION {[1..n -> {Blank} \cup Ids] : n \in 0..MaxColumn}

InitIndex ==
    /\ indexCall \in [phase : {"called"}, column : Columns, ok : {TRUE},
                       raised : {FALSE}, result : {<<>>}, batch : {<<>>},
                       updates : {<<>>}, appends : {<<>>}]
    /\ MainIdle
    /\ SyncIdle
    /\ CompressIdle
    /\ LoadIdle
    /\ GenIdle
    /\ UploadIdle

\* get_existing_ids(service): the read of B:B succeeds or raises; the
\* except clause logs and returns the empty dict.
GetExistingIds ==
    /\ indexCall.phase = "called"
    /\ \E ok \in BOOLEAN :
         indexCall' = [indexCall EXCEPT
                          !.phase = "returned",
                          !.ok = ok,
                          !.raised = FALSE,
                          !.result = existing_ids_of_column(indexCall.column, ok)]
    /\ UNCHANGED restOfIndex

\* The partition sync_batch makes of a batch with the index just returned.
PartitionBatch ==
    /\ indexCall.phase = "returned"
    /\ \E batch \in Batches :
         indexCall' = [indexCall EXCEPT
                          !.phase = "partitioned",
                          !.batch = batch,
                          !.updates = updates_data(batch, indexCall.result),
                          !.appends = new_rows(batch, indexCall.result)]
    /\ UNCHANGED restOfIndex

NextIndex == GetExistingIds \/ PartitionBatch

SpecIndex == InitIndex /\ [][NextIndex]_vars

\* C25. get_existing_ids, as claimed: the index maps the id of every
\* non-empty cell of the identifying column to the 1-based row of that cell
\* and holds nothing else; a failed read returns the empty index without
\* raising; with the empty index every record of a batch is appended and none
\* is updated.
C25_ExistingIds ==
    indexCall.phase # "idle" /\ indexCall.phase # "called" =>
       /\ ~indexCall.raised
       /\ IF indexCall.ok
          THEN /\ \A k \in 1..Len(indexCall.column) :
                     indexCall.column[k] # Blank =>
                        /\ indexCall.column[k] \in DOMAIN indexCall.result
                        /\ indexCall.result[indexCall.column[k]] = k
               /\ \A id \in DOMAIN indexCall.result :
                     \E k \in 1..Len(indexCall.column) :
                        indexCall.column[k] = id
          ELSE indexCall.result = <<>>
       /\ (indexCall.phase = "partitioned" /\ indexCall.result = <<>>) =>
              /\ indexCall.updates = <<>>
              /\ indexCall.appends = indexCall.batch

(* ------------- process_asset and upload_to_drive of one item ----------- *)

MaxWorkers == 2

\* for attempt in range(3) of upload_to_drive.
UploadAttempts == 3

Workers == 1..MaxWorkers

\* The thread of main; the worker threads are the numbers of Workers.
MainThread == 0

\* The names an asset may carry, as os.path.splitext reads them.
AssetNames == {[base |-> "a", ext |-> "png"], [base |-> "a", ext |-> "jpg"],
               [base |-> "b", ext |-> "jpg"]}

\* An asset: its name, and whether compress_image converts it (an image of
\* JPEG or PNG format above the target size that Pillow opens and saves).
Assets == {a \in [name : AssetNames, converted : BOOLEAN] :
              a.converted => a.name.base = "a"}

\* compress_image: the name it hands back, new_filename = base_name + ".jpg"
\* when the image was converted, the name it was given otherwise.
final_name(asset) ==
    IF asset.converted THEN [asset.name EXCEPT !.ext = "jpg"]
    ELSE asset.name

\* file_name = f"{sanitized_item_name}_{original_filename}": the workers of
\* one item share the item name.
file_name(sanitized_item_name, original_filename) ==
    [item |-> sanitized_item_name, name |-> original_filename]

\* The item whose assets the pool processes.
ItemName == "item"

\* The objects of the folder that files().list(q = name = ...) matches.
Matches(folder, name) == {k \in 1..Len(folder) : folder[k] = name}

\* The Drive client a worker passes to upload_to_drive: the one it built.
drive_service_shared(w) == MainThread

drive_service(w) == w

\* range(3): whether the loop makes the attempt numbered att.
may_create_four(att) == att < UploadAttempts + 1

may_create(att) == att < UploadAttempts

NoLink == 0

QueuedWorker(asset) ==
    [asset |-> asset, pc |-> "queued", final |-> asset.name, client |-> -1,
     download |-> "none", entered |-> FALSE, listed |-> "no",
     existed |-> FALSE, attempt |-> 0, creates |-> <<>>, sleeps |-> <<>>,
     created |-> NoLink, result |-> NoLink, collected |-> FALSE]

InitUpload ==
    /\ \E order \in {"pool", "sequence"}, assets \in [Workers -> Assets] :
         up = [phase |-> "pool", order |-> order, folder |-> <<>>,
               w |-> [v \in Workers |-> QueuedWorker(assets[v])],
               drive_links |-> <<>>, recorded |-> FALSE, saved |-> FALSE,
               actor |-> MainThread]
    /\ MainIdle
    /\ SyncIdle
    /\ CompressIdle
    /\ LoadIdle
    /\ GenIdle
    /\ IndexIdle

\* A worker thread runs: the pool runs the tasks of one item together; two
\* runs over the same item (a replay) process its assets one after the other.
MayRun(v) ==
    /\ up.phase = "pool"
    /\ up.order = "sequence" => \A u \in Workers : u < v => up.w[u].pc = "done"

\* A step of worker v that leaves rec as its state.
WorkerStep(v, rec) == [up EXCEPT !.w[v] = rec, !.actor = v]

Returns(rec, link) == [rec EXCEPT !.pc = "done", !.result = link]

\* process_asset up to compress_image: no public_url or name, or a failed
\* download, returns None; otherwise the content is compressed.
ProcessAssetDownload(v) ==
    /\ MayRun(v)
    /\ up.w[v].pc = "queued"
    /\ \E has_url, got \in BOOLEAN :
         up' = WorkerStep(v,
                 IF ~has_url
                 THEN Returns(up.w[v], NoLink)
                 ELSE IF ~got
                 THEN Returns([up.w[v] EXCEPT !.download = "failed"], NoLink)
                 ELSE [up.w[v] EXCEPT !.pc = "build",
                                       !.download = "ok",
                                       !.final = final_name(up.w[v].asset)])
    /\ UNCHANGED restOfUpload

\* drive_service = build('drive', 'v3', ...) in the thread; None when it
\* raises.
ProcessAssetBuild(v) ==
    /\ MayRun(v)
    /\ up.w[v].pc = "build"
    /\ \E built \in BOOLEAN :
         up' = WorkerStep(v,
                 IF ~built
                 THEN Returns(up.w[v], NoLink)
                 ELSE [up.w[v] EXCEPT !.pc = "check",
                                       !.client = drive_service(v)])
    /\ UNCHANGED restOfUpload

\* upload_to_drive, the duplicate check: files().list answers or raises; a
\* match returns the link of files[0], a failed check is logged and the
\* upload goes on.
UploadCheck(v) ==
    /\ MayRun(v)
    /\ up.w[v].pc = "check"
    /\ LET name == file_name(ItemName, up.w[v].final)
           found == Matches(up.folder, name)
           rec == [up.w[v] EXCEPT !.entered = TRUE,
                                  !.existed = (found # {})]
       IN \E listed \in BOOLEAN :
            IF listed /\ found # {}
            THEN \E k \in found :
                    up' = WorkerStep(v, Returns([rec EXCEPT !.listed = "ok"], k))
            ELSE up' = WorkerStep(v,
                         [rec EXCEPT !.pc = "create",
                                     !.listed = IF listed THEN "ok"
                                                ELSE "raised"])
    /\ UNCHANGED restOfUpload

\* One turn of the loop over range(3): files().create returns the new
\* object's link, or raises and the loop sleeps 2 ** attempt; after the last
\* turn the function returns None.
UploadCreate(v) ==
    /\ MayRun(v)
    /\ up.w[v].pc = "create"
    /\ may_create(up.w[v].attempt)
    /\ \E ok \in BOOLEAN :
         LET rec == [up.w[v] EXCEPT !.creates = Append(@, ok)] IN
         IF ok
         THEN up' = [WorkerStep(v,
                        Returns([rec EXCEPT !.created = Len(up.folder) + 1],
                                Len(up.folder) + 1))
                       EXCEPT !.folder =
                           Append(@, file_name(ItemName, up.w[v].final))]
         ELSE LET slept == [rec EXCEPT !.sleeps = Append(@, 2 ^ rec.attempt),
                                       !.attempt = @ + 1]
              IN up' = WorkerStep(v,
                         IF may_create(slept.attempt) THEN slept
                         ELSE Returns(slept, NoLink))
    /\ UNCHANGED restOfUpload

\* The loop over as_completed in main: link = future.result(); a link is
\* appended to drive_links.
Collect(v) ==
    /\ up.phase = "pool"
    /\ up.w[v].pc = "done"
    /\ ~up.w[v].collected
    /\ up' = [up EXCEPT !.w[v].collected = TRUE,
                        !.drive_links =
                            IF up.w[v].result # NoLink
                            THEN Append(@, up.w[v].result) ELSE @,
                        !.actor = MainThread]
    /\ UNCHANGED restOfUpload

\* The with block is left: append_to_sheet when there are links (it adds
\* the id to existing_ids), then save_state(current_item_num + 1).
AfterPool ==
    /\ up.phase = "pool"
    /\ \A v \in Workers : up.w[v].collected
    /\ up' = [up EXCEPT !.phase = "saved",
                        !.recorded = (up.drive_links # <<>>),
                        !.saved = TRUE,
                        !.actor = MainThread]
    /\ UNCHANGED restOfUpload

NextUpload ==
    \/ \E v \in Workers : ProcessAssetDownload(v)
    \/ \E v \in Workers : ProcessAssetBuild(v)
    \/ \E v \in Workers : UploadCheck(v)
    \/ \E v \in Workers : UploadCreate(v)
    \/ \E v \in Workers : Collect(v)
    \/ AfterPool

SpecUpload == InitUpload /\ [][NextUpload]_vars

(* ------------------------ properties of the upload -------------------- *)

\* C26. Upload idempotence, as claimed: an upload that meets an object of
\* its namespaced name in the folder creates nothing and returns the link of
\* such an object; and the same asset processed twice, one time after the
\* other, with a link returned both times, leaves one object of that name
\* and returns the same link twice.
C26_UploadIdempotent ==
    up.phase # "idle" =>
       /\ \A v \in Workers :
             up.w[v].existed =>
                /\ up.w[v].creates = <<>>
                /\ up.w[v].pc = "done" =>
                      up.w[v].result \in
                         Matches(up.folder, file_name(ItemName, up.w[v].final))
       /\ \A u, v \in Workers :
             (/\ up.order = "sequence"
              /\ u < v
              /\ up.w[u].asset = up.w[v].asset
              /\ up.w[u].pc = "done" /\ up.w[u].result # NoLink
              /\ up.w[v].pc = "done" /\ up.w[v].result # NoLink)
             => /\ Cardinality(Matches(up.folder,
                                       file_name(ItemName, up.w[v].final))) = 1
                /\ up.w[u].result = up.w[v].result

\* C27. Bounded upload: upload_to_drive makes at most three attempts to
\* create the object, makes none after one that succeeded and returns the
\* link of that one, returns None once the third has failed; a failed
\* download makes process_asset return None before any request to Drive.
C27_BoundedUpload ==
    up.phase # "idle" =>
       \A v \in Workers :
          LET r == up.w[v]
              n == Len(r.creates)
          IN /\ n <= UploadAttempts
             /\ \A k \in 1..(n - 1) : ~r.creates[k]
             /\ r.pc = "create" => \A k \in 1..n : ~r.creates[k]
             /\ (r.pc = "done" /\ n > 0 /\ r.creates[n]) =>
                   /\ r.result = r.created
                   /\ r.result \in Matches(up.folder,
                                           file_name(ItemName, r.final))
             /\ (r.pc = "done" /\ n > 0 /\ ~r.creates[n]) =>
                   /\ n = UploadAttempts
                   /\ r.result = NoLink
                   /\ r.sleeps = <<1, 2, 4>>
             /\ r.download = "failed" =>
                   /\ r.pc = "done"
                   /\ r.result = NoLink
                   /\ ~r.entered
                   /\ r.listed = "no"
                   /\ r.creates = <<>>

C27_Witness ==
    /\ up.phase # "idle"
    /\ \E u, v, x \in Workers :
         /\ up.w[u].creates = <<FALSE, FALSE, TRUE>>
         /\ up.w[u].result # NoLink
         /\ \/ up.w[v].download = "failed"
            \/ /\ up.w[x].creates = <<FALSE, FALSE, FALSE>>
               /\ up.w[x].pc = "done"

\* C28. Ownership: the link list of the item, existing_ids and the saved
\* offset change only in steps of the thread of main, never in a step of a
\* worker, and the Drive client a worker uses is the one that worker built.
C28_Ownership ==
    [][up.phase # "idle" =>
          /\ (\/ up'.drive_links # up.drive_links
              \/ up'.recorded # up.recorded
              \/ up'.saved # up.saved) => up'.actor = MainThread
          /\ up'.actor \in Workers =>
                /\ up'.drive_links = up.drive_links
                /\ up'.recorded = up.recorded
                /\ up'.saved = up.saved
          /\ \A v \in Workers :
                up'.w[v].entered => up'.w[v].client = v]_vars

C28_Witness ==
    /\ up.phase = "saved"
    /\ up.recorded
    /\ Len(up.drive_links) = MaxWorkers
    /\ \A v \in Workers : up.w[v].entered /\ up.w[v].client = v

\* C29. Concurrent upload safety, as claimed: when the workers of one item run
\* together and every duplicate check is answered, the folder never holds two
\* objects of one name, also when the namespaced names of two assets coincide.
C29_ConcurrentUpload ==
    (/\ up.phase # "idle"
     /\ up.order = "pool"
     /\ \A v \in Workers : up.w[v].listed # "raised")
    => \A j, k \in 1..Len(up.folder) : up.folder[j] = up.folder[k] => j = k

(* ------------------------ progress of the offset ----------------------- *)

\* C30. Progress invariant, as claimed: while no save_state has failed, the
\* persisted offset is the number of the item main is handling; the persisted
\* offset is never more than one above the last item whose handling
\* completed; and the run after a crash handles again no item that was handled
\* before the crash but the one in flight at the crash.
C30_Progress ==
    /\ (Handling /\ ~progress.saveFailed) =>
          load_state(stateFile) = current_item_num
    /\ load_state(stateFile) <= progress.completed + 1
    /\ (crashes > 0 /\ firstHandled # 0 /\ ~progress.saveFailed) =>
          \A n \in firstHandled..progress.crashBegun :
             n = progress.crashInflight

(* -------------------- an item whose assets all fail -------------------- *)

\* C31. As claimed: when every asset of a named item has failed, main writes
\* no row for the item, the save that ends its handling leaves the persisted
\* offset at the item's number + 1, and no later pass of this run or of a
\* run started after it handles the item again.
C31_LinklessAdvances ==
    [][/\ (pc = "pool" /\ pc' = "save" /\ drive_links = {}) => sheet' = sheet
       /\ (pc = "save" /\ pc' = "gen" /\ HasAssets(current_item_num)
             /\ drive_links = {})
          => stateFile' = Digits(current_item_num + 1)
       /\ (pc = "gen" /\ pc' \in {"pool", "save"})
          => current_item_num' \notin progress.linkless]_vars

(* ------------------- an error answer that ends the stream -------------- *)

\* The answers fetch_monday_page turns into ([], None) at once.
EndsStream == {"gqlerror", "noboards"}

\* C32. A GraphQL error other than cursor expiry, or an answer without board
\* data, makes fetch_monday_page return the empty page without cursor at the
\* attempt that met it, with no sleep and no further attempt; the generator
\* ends, and main leaves its loop as at the end of the stream, the state file
\* being as the last save left it.
C32_ErrorEndsStream ==
    /\ [](lastResp \in EndsStream =>
             /\ pc \in {"gen", "done"}
             /\ page = <<>>
             /\ cursor = 0
             /\ fetched
             /\ attempt = 0
             /\ fetchSleeps = <<>>)
    /\ [][lastResp' \in EndsStream =>
             /\ stateFile' = stateFile
             /\ current_item_num' = current_item_num
             /\ lastResp \in EndsStream => pc' = "done"]_vars
    /\ (lastResp \in EndsStream ~> pc = "done")

C32_Witness ==
    /\ lastResp = "gqlerror"
    /\ pc = "done"
    /\ current_item_num = 2
    /\ stateFile = Digits(3)

(* ------------------------ the id cache of main ------------------------- *)

\* main runs with the cache get_existing_ids gave it.
CacheLive == pc \in {"loop", "sleep", "gen", "pool", "save", "done"}

\* The rows this run of main has appended.
AppendedByRun == SubSeq(sheet, progress.runRows + 1, Len(sheet))

\* C33. The id cache of main.py is consistent with the sheet: append_to_sheet
\* appends nothing for an id in existing_ids, adds the id to existing_ids when
\* its append has returned and leaves existing_ids as it was when the append
\* raised; every id the run added to the cache has exactly one row appended
\* by this run, and every row the run appended is of such an id.
C33_CacheConsistent ==
    /\ [](CacheLive =>
            /\ progress.runIds \subseteq existing_ids
            /\ \A id \in existing_ids \ progress.runIds :
                  Cardinality({k \in 1..Len(AppendedByRun) :
                                  AppendedByRun[k].id = id}) = 1
            /\ \A k \in 1..Len(AppendedByRun) :
                  AppendedByRun[k].id \in existing_ids \ progress.runIds)
    /\ [][(pc = "pool" /\ pc' = "save") =>
             /\ current_item_num \in existing_ids =>
                   sheet' = sheet /\ existing_ids' = existing_ids
             /\ sheet' = sheet => existing_ids' = existing_ids
             /\ sheet' # sheet =>
                   /\ sheet' = Append(sheet, Row(current_item_num, drive_links))
                   /\ existing_ids' = existing_ids \cup {current_item_num}
          ]_vars

C33_Witness ==
    /\ CacheLive
    /\ crashes = 1
    /\ firstHandled = 1
    /\ progress.runIds = {1}
    /\ existing_ids = {1, 2}
    /\ Len(sheet) = 2
    /\ current_item_num = 2

(* ---------------------- save_state, then load_state -------------------- *)

MaxN == 12

\* str(item_num) of a natural number.
RECURSIVE str_nat(_)
str_nat(n) ==
    IF n < 10 THEN <<DigitSeq[n + 1]>>
    ELSE Append(str_nat(n \div 10), DigitSeq[(n % 10) + 1])

str_abs(n) == str_nat(IF n < 0 THEN -n ELSE n)

\* str(item_num)
str(n) == IF n < 0 THEN <<"-">> \o str_nat(-n) ELSE str_nat(n)

\* save_state(item_num) on the text of the file: open(STATE_FILE, 'w')
\* creates or truncates the file, write puts str(item_num) into it; an
\* exception is logged and swallowed.
save_state_text(file, item_num, outcome) ==
    CASE outcome = "ok" ->
            [exists |-> TRUE, readable |-> TRUE, text |-> str(item_num)]
      [] outcome = "open" -> file
      [] outcome = "write" ->
            [exists |-> TRUE, readable |-> TRUE, text |-> <<>>]

\* What save_state finds at STATE_FILE.
PriorFiles ==
    {[exists |-> FALSE, readable |-> FALSE, text |-> <<>>],
     [exists |-> TRUE, readable |-> TRUE, text |-> <<"7">>]}

InitRound ==
    /\ loadCall \in [phase : {"saving"}, n : (-MaxN)..MaxN, saved : {"no"},
                      file : PriorFiles, result : {Returned(0)}]
    /\ MainIdle
    /\ SyncIdle
    /\ CompressIdle
    /\ GenIdle
    /\ IndexIdle
    /\ UploadIdle

SaveState ==
    /\ loadCall.phase = "saving"
    /\ \E outcome \in SaveOutcomes :
         loadCall' = [loadCall EXCEPT
                         !.phase = "called",
                         !.saved = outcome,
                         !.file = save_state_text(loadCall.file, loadCall.n,
                                                  outcome)]
    /\ UNCHANGED restOfLoad

NextRound == SaveState \/ LoadState

SpecRound == InitRound /\ [][NextRound]_vars

\* C34. State round trip: load_state after a save_state(n) that succeeded
\* returns n when n is not negative and the default 1 when n is negative.
C34_RoundTrip ==
    (loadCall.phase = "returned" /\ loadCall.saved = "ok") =>
       /\ ~loadCall.result.raised
       /\ loadCall.result.value = IF loadCall.n >= 0 THEN loadCall.n ELSE 1

C34_Witness ==
    /\ loadCall.phase = "returned"
    /\ loadCall.saved = "ok"
    /\ loadCall.n = 10
    /\ loadCall.file.text = <<"1", "0">>
    /\ loadCall.result = Returned(10)

====
